---------------------------- MODULE Spec2Model ----------------------------
(***************************************************************************)
(* Model of the two cloud-init config modules of vyos-cloud-init:          *)
(*   cloudinit/config/cc_vyos_install.py   (unattended installation)       *)
(*   cloudinit/config/cc_vyos_ifupdown.py  (ifupdown configuration cleanup)*)
(*                                                                         *)
(* Python integers are unbounded while TLC's are 32 bit wide, and the      *)
(* sizes the code compares lie around 2^31.  A byte count is therefore     *)
(* kept as the pair [mib, rem] standing for mib * 1024^2 + rem with        *)
(* 0 <= rem < 1024^2, and compared and subtracted digit by digit.          *)
(*                                                                         *)
(* The values handle looks up in cfg are drawn where the lookup happens:   *)
(* cfg is not written and each path is looked up once in a run.  Calls to  *)
(* the vyos library (disk, grub, image) are recorded in order and taken to *)
(* return; the exceptions modelled are those of disks_size() and of the    *)
(* steps of network_cleanup().                                             *)
(***************************************************************************)
EXTENDS Integers, Sequences, FiniteSets, TLC

VARIABLES
    pc,                 \* position of cc_vyos_install.handle
    DEFAULT_BOOT_VARS,  \* the module-level dictionary (lives as long as the process)
    activated,          \* what get_cfg_by_path(cfg, "vyos_install/activated", False) gave
    live_boot,          \* what image.is_live_boot() gave
    lsblk,              \* outcome of run("lsblk -Jbp") and json_loads, inside find_disk
    disks_available,    \* the dictionary disks_size() returned, in insertion order
    install_target,     \* handle's locals
    target_size,
    part_prefix,
    rootfs_size,
    boot_params,
    calls,              \* calls made to the collaborators in this run, in order
    log,                \* records handed to LOG in this run, in order
    exc,                \* exception that left handle ("" when none)
    if_pc,              \* position of cc_vyos_ifupdown.handle
    net_config_exists,  \* /etc/network/interfaces.d/50-cloud-init is there
    udev_rules_exists,  \* /etc/udev/rules.d/70-persistent-net.rules is there
    host,               \* how the host answers this run of network_cleanup
    configured_ifaces,  \* network_cleanup's local
    if_calls,           \* commands and file operations of this run, in order
    if_log,             \* records handed to LOG in this run, in order
    if_exc              \* exception that left handle ("" when none)

install_vars == <<pc, DEFAULT_BOOT_VARS, activated, live_boot, lsblk, disks_available,
                  install_target, target_size, part_prefix, rootfs_size, boot_params,
                  calls, log, exc>>
ifupdown_vars == <<if_pc, net_config_exists, udev_rules_exists, host, configured_ifaces,
                   if_calls, if_log, if_exc>>
vars == <<install_vars, ifupdown_vars>>

---------------------------------------------------------------------------
(* Bounds of the model.                                                    *)

\* Largest number of top-level entries in lsblk's "blockdevices" list.
MaxDevices == 3
\* Largest number of interfaces ifquery lists.
MaxIfaces == 2

---------------------------------------------------------------------------
(* Byte counts.                                                            *)

MiB == 1024 * 1024

Bytes(mib, rem) == [mib |-> mib, rem |-> rem]

\* a > b on byte counts
GreaterThan(a, b) == a.mib > b.mib \/ (a.mib = b.mib /\ a.rem > b.rem)

\* a - b on byte counts
Minus(a, b) ==
    IF a.rem >= b.rem
    THEN Bytes(a.mib - b.mib, a.rem - b.rem)
    ELSE Bytes(a.mib - b.mib - 1, a.rem - b.rem + MiB)

\* a // 1024, an ordinary integer (Python's floor division)
FloorDiv1024(a) == a.mib * 1024 + (a.rem \div 1024)

\* (2 + 1 + 256) * 1024**2
CONST_RESERVED_SPACE == Bytes(2 + 1 + 256, 0)

\* the literal 2147483648 of find_disk: 2048 * 1024^2
MIN_DISK_SIZE == Bytes(2048, 0)

InitialBootVars ==
    [timeout |-> "5", console_type |-> "tty", console_num |-> "0",
     console_speed |-> "115200", bootmode |-> "normal"]

---------------------------------------------------------------------------
(* Results of Python calls: a value, or an exception on its way up.        *)

Return(v) == [raised |-> FALSE, exception |-> "", value |-> v]
Raise(e) == [raised |-> TRUE, exception |-> e, value |-> <<>>]

(* A dict is kept as the sequence of its <<key, value>> items in insertion  *)
(* order, which is the order Python iterates it in.                        *)
Keys(d) == {d[i][1] : i \in 1..Len(d)}

dict_get(d, k) == LET i == CHOOSE i \in 1..Len(d) : d[i][1] = k IN d[i][2]

\* d.update({k: v}): an existing key keeps its place and takes the new value
dict_update(d, k, v) ==
    IF k \in Keys(d)
    THEN [i \in 1..Len(d) |-> IF d[i][1] = k THEN <<k, v>> ELSE d[i]]
    ELSE Append(d, <<k, v>>)

---------------------------------------------------------------------------
(* What the host can answer to "lsblk -Jbp".                               *)

GiB2 == Bytes(2048, 0)                 \* 2,147,483,648
DiskSizes ==
    {Bytes(1907, 365568),              \* 2,000,000,000
     GiB2,                             \* 2,147,483,648
     Bytes(2048, 1),                   \* 2,147,483,649
     Bytes(3072, 0),                   \* 3,221,225,472
     Bytes(5120, 0)}                   \* 5,368,709,120

Partition(n, size) == [name |-> n, type |-> "part", size |-> size]

\* Well-formed records of lsblk's top-level list.  A disk with partitions carries
\* them in "children".
WellFormedDevices ==
    {[name |-> n, type |-> "disk", size |-> s] :
        n \in {"/dev/sdb", "/dev/sdc"}, s \in DiskSizes}
    \cup {[name |-> "/dev/sda", type |-> "disk", size |-> s,
           children |-> <<Partition("/dev/sda1", Bytes(256, 0))>>] : s \in DiskSizes}
    \cup {[name |-> "/dev/nvme0n1", type |-> "disk", size |-> Bytes(3072, 0)],
          Partition("/dev/sdb1", Bytes(3072, 0)),
          [name |-> "/dev/sr0", type |-> "rom", size |-> Bytes(3072, 0)],
          [name |-> "/dev/loop0", type |-> "loop", size |-> Bytes(5120, 0)]}

\* Records with a key missing.
MalformedDevices ==
    {[name |-> "/dev/sdb", size |-> Bytes(3072, 0)],
     [type |-> "disk", size |-> Bytes(3072, 0)],
     [name |-> "/dev/sdc", type |-> "disk"],
     [name |-> "/dev/sdb1", type |-> "part"],
     [type |-> "part", size |-> Bytes(3072, 0)]}

Devices == WellFormedDevices \cup MalformedDevices

\* lsblk names every device once.
DistinctNames(devs) ==
    \A i, j \in 1..Len(devs) :
        i # j => /\ devs[i] # devs[j]
                 /\ ("name" \in DOMAIN devs[i] /\ "name" \in DOMAIN devs[j])
                        => devs[i].name # devs[j].name

DeviceLists ==
    {devs \in UNION {[1..n -> Devices] : n \in 0..MaxDevices} : DistinctNames(devs)}

\* The outcome of run(...).stdout.decode() followed by json_loads: the command
\* cannot be run; its output is no JSON (empty when lsblk itself failed); a JSON
\* object, with or without the key "blockdevices".
LsblkOutcomes ==
    {[kind |-> "run_error"], [kind |-> "not_json"],
     [kind |-> "json", blk_list |-> [version |-> "2"]]}
    \cup {[kind |-> "json", blk_list |-> [blockdevices |-> devs]] : devs \in DeviceLists}

NoLsblk == [kind |-> "none"]

---------------------------------------------------------------------------
(* cc_vyos_install: disks_size and find_disk.                              *)

\* device["type"] == "disk"
is_disk_any(device) == TRUE
is_disk(device) == device["type"] = "disk"

RECURSIVE disks_size_loop(_, _)
disks_size_loop(devices, acc) ==
    IF devices = <<>> THEN Return(acc)
    ELSE LET device == Head(devices) IN
         IF "type" \notin DOMAIN device THEN Raise("KeyError")
         ELSE IF is_disk(device)
         THEN IF "name" \notin DOMAIN device \/ "size" \notin DOMAIN device
              THEN Raise("KeyError")
              ELSE disks_size_loop(Tail(devices),
                                   dict_update(acc, device["name"], device["size"]))
         ELSE disks_size_loop(Tail(devices), acc)

\* as if written blk_list.get("blockdevices", [])
disks_size_default_list(out) ==
    IF out.kind = "run_error" THEN Raise("FileNotFoundError")
    ELSE IF out.kind = "not_json" THEN Raise("JSONDecodeError")
    ELSE IF "blockdevices" \notin DOMAIN out.blk_list
         THEN Return(<<>>)
         ELSE disks_size_loop(out.blk_list["blockdevices"], <<>>)

disks_size(out) ==
    IF out.kind = "run_error" THEN Raise("FileNotFoundError")
    ELSE IF out.kind = "not_json" THEN Raise("JSONDecodeError")
    ELSE IF "blockdevices" \notin DOMAIN out.blk_list
         THEN Raise("TypeError")       \* iterating over .get()'s None
         ELSE disks_size_loop(out.blk_list["blockdevices"], <<>>)

\* disk_size > 2147483648
qualifies_ge(disk_size) == ~GreaterThan(MIN_DISK_SIZE, disk_size)
qualifies(disk_size) == GreaterThan(disk_size, MIN_DISK_SIZE)

NoDisk == <<"", Bytes(0, 0)>>

\* the for loop of find_disk over disks_available.copy().items()
RECURSIVE find_disk_loop(_)
find_disk_first_only(items) ==
    IF items = <<>> THEN NoDisk
    ELSE IF qualifies(Head(items)[2]) THEN Head(items) ELSE NoDisk
find_disk_loop(items) ==
    IF items = <<>> THEN NoDisk
    ELSE IF qualifies(Head(items)[2]) THEN Head(items)
    ELSE find_disk_loop(Tail(items))

\* find_disk on the dictionary disks_size() returned
find_disk(disks) == IF disks = <<>> THEN NoDisk ELSE find_disk_loop(disks)

---------------------------------------------------------------------------
(* cc_vyos_install: handle.                                                *)

DIR_INSTALLATION == "/mnt/installation"
DIR_DST_ROOT == "/mnt/installation/disk_dst"

Call(op, args) == [op |-> op, args |-> args]
Info(msg) == <<"info", msg>>
Error(msg) == <<"error", msg>>
Warn(msg) == <<"warn", msg>>

NoBootParams ==
    [console_type |-> "", serial_console_num |-> "", serial_console_speed |-> "",
     cmdline_extra |-> ""]

\* dev_type in install_target, for the names the host can report
Contains(dev_type, name) ==
    \/ dev_type = "nvme" /\ name = "/dev/nvme0n1"
    \/ dev_type = "mmcblk" /\ name = "/dev/mmcblk0"

\* the loop over ["nvme", "mmcblk"] that sets part_prefix
PartPrefix(target) ==
    IF Contains("nvme", target) \/ Contains("mmcblk", target) THEN "p" ELSE ""

\* f"{install_target}{part_prefix}{number}", kept as its three parts
PartitionName(target, prefix, number) == <<target, prefix, number>>

\* the guards of handle: not get_cfg_by_path(...), not image.is_live_boot(),
\* not install_target
NotActivated(value) == ~value
NotLiveBoot_never(value) == FALSE
NotLiveBoot(value) == ~value
NoTarget_never(target) == FALSE
NoTarget(target) == target = ""

InstallInit ==
    /\ pc = "idle"
    /\ DEFAULT_BOOT_VARS = InitialBootVars
    /\ activated = FALSE
    /\ live_boot = FALSE
    /\ lsblk = NoLsblk
    /\ disks_available = <<>>
    /\ install_target = ""
    /\ target_size = Bytes(0, 0)
    /\ part_prefix = ""
    /\ rootfs_size = 0
    /\ boot_params = NoBootParams
    /\ calls = <<>>
    /\ log = <<>>
    /\ exc = ""

\* handle is entered and looks up vyos_install/activated (absent: False)
Handle_CheckActivated ==
    /\ UNCHANGED ifupdown_vars
    /\ pc = "idle"
    /\ \E value \in BOOLEAN :
        /\ activated' = value
        /\ IF NotActivated(value)
           THEN /\ log' = <<Info("Running module"),
                            Info("Unattended installation is not activated in configuration")>>
                /\ pc' = "done"
           ELSE /\ log' = <<Info("Running module")>>
                /\ pc' = "check_live_boot"
    /\ UNCHANGED <<DEFAULT_BOOT_VARS, live_boot, lsblk, disks_available, install_target,
                   target_size, part_prefix, rootfs_size, boot_params, calls, exc>>

\* image.is_live_boot(), then image.get_running_image()
Handle_CheckLiveBoot ==
    /\ UNCHANGED ifupdown_vars
    /\ pc = "check_live_boot"
    /\ \E value \in BOOLEAN :
        /\ live_boot' = value
        /\ IF NotLiveBoot(value)
           THEN /\ calls' = Append(calls, Call("image.is_live_boot", <<>>))
                /\ log' = Append(log, Error("This module can be run only in a live-boot mode"))
                /\ pc' = "done"
           ELSE /\ calls' = calls \o <<Call("image.is_live_boot", <<>>),
                                       Call("image.get_running_image", <<>>)>>
                /\ log' = log
                /\ pc' = "find_disk"
    /\ UNCHANGED <<DEFAULT_BOOT_VARS, activated, lsblk, disks_available, install_target,
                   target_size, part_prefix, rootfs_size, boot_params, exc>>

\* install_target, target_size = find_disk(), and the test that follows.  What
\* lsblk answered and what disks_size() made of it are kept until the next step.
Handle_FindDisk ==
    /\ UNCHANGED ifupdown_vars
    /\ pc = "find_disk"
    /\ \E out \in LsblkOutcomes :
        LET ds == disks_size(out)
            found == find_disk(ds.value)
        IN  /\ lsblk' = out
            /\ calls' = Append(calls, Call("lsblk", <<>>))
            /\ IF ds.raised
               THEN /\ exc' = ds.exception
                    /\ pc' = "raised"
                    /\ UNCHANGED <<disks_available, install_target, target_size, log>>
               ELSE /\ disks_available' = ds.value
                    /\ install_target' = found[1]
                    /\ target_size' = found[2]
                    /\ exc' = exc
                    /\ IF NoTarget(found[1])
                       THEN /\ log' = Append(log, Error("No suitable disk found for installation"))
                            /\ pc' = "done"
                       ELSE /\ log' = log
                            /\ pc' = "partition"
    /\ UNCHANGED <<DEFAULT_BOOT_VARS, activated, live_boot, part_prefix, rootfs_size,
                   boot_params>>

\* part_prefix, rootfs_size, disk_cleanup, parttable_create, filesystem_create
Handle_Partition ==
    /\ UNCHANGED ifupdown_vars
    /\ pc = "partition"
    /\ LET prefix == PartPrefix(install_target)
           size == FloorDiv1024(Minus(target_size, CONST_RESERVED_SPACE))
       IN  /\ part_prefix' = prefix
           /\ rootfs_size' = size
           /\ calls' = calls \o
                <<Call("disk.disk_cleanup", <<install_target>>),
                  Call("disk.parttable_create", <<install_target, size>>),
                  Call("disk.filesystem_create",
                       <<PartitionName(install_target, prefix, "2"), "efi">>),
                  Call("disk.filesystem_create",
                       <<PartitionName(install_target, prefix, "3"), "ext4">>)>>
    /\ log' = log \o <<Info("System will be installed"), Info("Rootfs size"),
                       Info("Disk cleaned"), Info("Partition table created"),
                       Info("EFI filesystem created"), Info("Ext4 filesystem created")>>
    /\ lsblk' = NoLsblk
    /\ disks_available' = <<>>
    /\ pc' = "mount"
    /\ UNCHANGED <<DEFAULT_BOOT_VARS, activated, live_boot, install_target, target_size,
                   boot_params, exc>>

\* prepare_tmp_disr and the two partition_mount calls
Handle_Mount ==
    /\ UNCHANGED ifupdown_vars
    /\ pc = "mount"
    /\ calls' = calls \o
         <<Call("mkdir", <<DIR_DST_ROOT>>),
           Call("disk.partition_mount",
                <<PartitionName(install_target, part_prefix, "3"), DIR_DST_ROOT>>),
           Call("mkdir", <<"/mnt/installation/disk_dst/boot/efi">>),
           Call("disk.partition_mount",
                <<PartitionName(install_target, part_prefix, "2"),
                  "/mnt/installation/disk_dst/boot/efi">>)>>
    /\ log' = log \o <<Info("Prepared temporary folders for installation"),
                       Info("Partiton 3 mouted"), Info("Partiton 2 mouted")>>
    /\ pc' = "copy"
    /\ UNCHANGED <<DEFAULT_BOOT_VARS, activated, live_boot, lsblk, disks_available,
                   install_target, target_size, part_prefix, rootfs_size, boot_params, exc>>

\* the configuration, persistence.conf, the kernel files and the root filesystem
Handle_Copy ==
    /\ UNCHANGED ifupdown_vars
    /\ pc = "copy"
    /\ calls' = calls \o
         <<Call("mkdir", <<"target_config_dir">>),
           Call("cp", <<"/opt/vyatta/etc/config", "target_config_dir">>),
           Call("write_text", <<"/mnt/installation/disk_dst/persistence.conf">>),
           Call("copy", <<"/boot/">>),
           Call("copy", <<"/usr/lib/live/mount/medium/live/filesystem.squashfs">>)>>
    /\ log' = log \o <<Info("Configuration copied from running system"),
                       Info("Root filesystem marked as persistent"),
                       Info("kernel files installed"), Info("squashfs installed")>>
    /\ pc' = "grub"
    /\ UNCHANGED <<DEFAULT_BOOT_VARS, activated, live_boot, lsblk, disks_available,
                   install_target, target_size, part_prefix, rootfs_size, boot_params, exc>>

\* boot_vars = DEFAULT_BOOT_VARS names the module's dictionary itself, so the three
\* assignments to boot_vars are assignments to DEFAULT_BOOT_VARS.
BootVars(defaults, params) ==
    IF params.console_type = "serial"
    THEN [defaults EXCEPT !.console_type = "ttyS",
                          !.console_num = params.serial_console_num,
                          !.console_speed = params.serial_console_speed]
    ELSE defaults

\* boot_params from the configuration (absent: "kvm", "0", "9600", ""), boot_vars,
\* setup_grub and the grub calls after it
Handle_Grub ==
    /\ UNCHANGED ifupdown_vars
    /\ pc = "grub"
    /\ \E console_type \in {"kvm", "serial"}, num \in {"0", "1"},
          speed \in {"9600", "115200"} :
        LET params == [console_type |-> console_type, serial_console_num |-> num,
                       serial_console_speed |-> speed, cmdline_extra |-> ""]
            boot_vars == BootVars(DEFAULT_BOOT_VARS, params)
        IN  /\ boot_params' = params
            /\ DEFAULT_BOOT_VARS' = boot_vars
            /\ calls' = calls \o
                 <<Call("setup_grub", <<DIR_DST_ROOT, boot_vars>>),
                   Call("grub.create_structure", <<>>),
                   Call("grub.version_add", <<DIR_DST_ROOT, params.cmdline_extra>>),
                   Call("grub.set_default", <<DIR_DST_ROOT>>),
                   Call("grub.install", <<install_target>>),
                   Call("grub.sort_inodes", <<"GRUB_DIR_VYOS">>),
                   Call("grub.sort_inodes", <<"GRUB_DIR_VYOS_VERS">>)>>
    /\ log' = log \o <<Info("GRUB configured"), Info("GRUB installed")>>
    /\ pc' = "finish"
    /\ UNCHANGED <<activated, live_boot, lsblk, disks_available, install_target,
                   target_size, part_prefix, rootfs_size, exc>>

\* vyos_install/ci_disable, cleanup(...), vyos_install/post_reboot, sync()
Handle_Finish ==
    /\ UNCHANGED ifupdown_vars
    /\ pc = "finish"
    /\ \E ci_disable \in BOOLEAN, post_reboot \in BOOLEAN :
        /\ calls' = calls
             \o (IF ci_disable THEN <<Call("touch", <<"cloud-init.disabled">>)>> ELSE <<>>)
             \o <<Call("disk.partition_umount",
                       <<PartitionName(install_target, part_prefix, "2")>>),
                  Call("disk.partition_umount",
                       <<PartitionName(install_target, part_prefix, "3")>>),
                  Call("disk.wait_for_umount",
                       <<PartitionName(install_target, part_prefix, "2")>>),
                  Call("disk.wait_for_umount",
                       <<PartitionName(install_target, part_prefix, "3")>>),
                  Call("rmtree", <<DIR_INSTALLATION>>)>>
             \o (IF post_reboot THEN <<Call("reboot_trigger", <<>>)>> ELSE <<>>)
             \o <<Call("sync", <<>>)>>
        /\ log' = log
             \o (IF ci_disable THEN <<Info("Disabling Cloud-init")>> ELSE <<>>)
             \o <<Info("Temporary resources freed up")>>
             \o (IF post_reboot
                 THEN <<Warn("Adding reboot trigger to postconfig script")>> ELSE <<>>)
    /\ pc' = "done"
    /\ UNCHANGED <<DEFAULT_BOOT_VARS, activated, live_boot, lsblk, disks_available,
                   install_target, target_size, part_prefix, rootfs_size, boot_params, exc>>

\* handle has returned or raised; its locals are gone and the module, with
\* DEFAULT_BOOT_VARS as the run left it, stays loaded for a further call
Handle_Return ==
    /\ UNCHANGED ifupdown_vars
    /\ pc \in {"done", "raised"}
    /\ pc' = "idle"
    /\ activated' = FALSE
    /\ live_boot' = FALSE
    /\ lsblk' = NoLsblk
    /\ disks_available' = <<>>
    /\ install_target' = ""
    /\ target_size' = Bytes(0, 0)
    /\ part_prefix' = ""
    /\ rootfs_size' = 0
    /\ boot_params' = NoBootParams
    /\ calls' = <<>>
    /\ log' = <<>>
    /\ exc' = ""
    /\ UNCHANGED DEFAULT_BOOT_VARS

---------------------------------------------------------------------------
(* cc_vyos_ifupdown: network_cleanup and handle.                           *)

Ifaces == {"eth0", "eth1", "eth2"}

IfaceLists ==
    {l \in UNION {[1..n -> Ifaces] : n \in 0..MaxIfaces} :
        \A i, j \in 1..Len(l) : i # j => l[i] # l[j]}

(* How the host answers one run.  subprocess.run raises when the command   *)
(* cannot be started; a command that starts and exits non-zero raises      *)
(* nothing (check is not set) and counts as having run.  Path.unlink       *)
(* raises OSError when the file cannot be removed.                         *)
Hosts ==
    [ifquery : {Raise("FileNotFoundError")} \cup {Return(l) : l \in IfaceLists},
     ifdown_raises : SUBSET Ifaces,
     unlink_net_config_raises : BOOLEAN,
     unlink_udev_rules_raises : BOOLEAN]

NoHost ==
    [ifquery |-> Return(<<>>), ifdown_raises |-> {}, unlink_net_config_raises |-> FALSE,
     unlink_udev_rules_raises |-> FALSE]

Debug(msg) == <<"debug", msg>>

IfupdownInit ==
    /\ if_pc = "idle"
    /\ net_config_exists = TRUE
    /\ udev_rules_exists = TRUE
    /\ host = NoHost
    /\ configured_ifaces = <<>>
    /\ if_calls = <<>>
    /\ if_log = <<>>
    /\ if_exc = ""

\* handle(*args) calls network_cleanup()
Ifupdown_Handle ==
    /\ UNCHANGED install_vars
    /\ if_pc = "idle"
    /\ host' \in Hosts
    /\ if_log' = <<Debug("Running cc_vyos_ifupdown module"),
                   Debug("Cleaning up network configuration applied by Cloud-Init")>>
    /\ if_pc' = "net_config"
    /\ UNCHANGED <<net_config_exists, udev_rules_exists, configured_ifaces, if_calls, if_exc>>

\* net_config_file.exists() and, inside try, the ifquery command
NetworkCleanup_Ifquery ==
    /\ UNCHANGED install_vars
    /\ if_pc = "net_config"
    /\ IF ~net_config_exists
       THEN /\ if_pc' = "udev_rules"
            /\ UNCHANGED <<configured_ifaces, if_calls, if_log>>
       ELSE /\ if_calls' = Append(if_calls, Call("ifquery", <<>>))
            /\ IF host.ifquery.raised
               THEN /\ if_log' = if_log \o
                         <<Debug("Configuration file was found"),
                           Error("Failed to cleanup network configuration")>>
                    /\ if_pc' = "udev_rules"
                    /\ UNCHANGED configured_ifaces
               ELSE /\ if_log' = Append(if_log, Debug("Configuration file was found"))
                    /\ configured_ifaces' = host.ifquery.value
                    /\ if_pc' = "ifdown"
    /\ UNCHANGED <<net_config_exists, udev_rules_exists, host, if_exc>>

\* one turn of the loop over configured_ifaces, which holds the interfaces still
\* to be deconfigured
NetworkCleanup_Ifdown ==
    /\ UNCHANGED install_vars
    /\ if_pc = "ifdown"
    /\ configured_ifaces # <<>>
    /\ LET iface == Head(configured_ifaces) IN
        /\ if_calls' = Append(if_calls, Call("ifdown", <<iface>>))
        /\ IF iface \in host.ifdown_raises
           THEN /\ if_log' = if_log \o
                     <<Debug("Deconfiguring interface"),
                       Error("Failed to cleanup network configuration")>>
                /\ configured_ifaces' = <<>>
                /\ if_pc' = "udev_rules"
           ELSE /\ if_log' = Append(if_log, Debug("Deconfiguring interface"))
                /\ configured_ifaces' = Tail(configured_ifaces)
                /\ if_pc' = "ifdown"
    /\ UNCHANGED <<net_config_exists, udev_rules_exists, host, if_exc>>

\* net_config_file.unlink(), the last statement inside try
NetworkCleanup_UnlinkNetConfig ==
    /\ UNCHANGED install_vars
    /\ if_pc = "ifdown"
    /\ configured_ifaces = <<>>
    /\ if_calls' = Append(if_calls, Call("unlink", <<"/etc/network/interfaces.d/50-cloud-init">>))
    /\ IF host.unlink_net_config_raises
       THEN /\ if_log' = Append(if_log, Error("Failed to cleanup network configuration"))
            /\ UNCHANGED net_config_exists
       ELSE /\ if_log' = Append(if_log, Debug("Configuration file was removed"))
            /\ net_config_exists' = FALSE
    /\ if_pc' = "udev_rules"
    /\ UNCHANGED <<udev_rules_exists, host, configured_ifaces, if_exc>>

\* udev_rules_file.exists() and udev_rules_file.unlink(), outside any try
NetworkCleanup_UdevRules ==
    /\ UNCHANGED install_vars
    /\ if_pc = "udev_rules"
    /\ IF ~udev_rules_exists
       THEN /\ if_pc' = "done"
            /\ UNCHANGED <<udev_rules_exists, if_calls, if_log, if_exc>>
       ELSE /\ if_log' = Append(if_log, Debug("Configuration file was removed"))
            /\ if_calls' = Append(if_calls,
                                  Call("unlink", <<"/etc/udev/rules.d/70-persistent-net.rules">>))
            /\ IF host.unlink_udev_rules_raises
               THEN /\ if_exc' = "OSError"
                    /\ if_pc' = "raised"
                    /\ UNCHANGED udev_rules_exists
               ELSE /\ udev_rules_exists' = FALSE
                    /\ if_pc' = "done"
                    /\ UNCHANGED if_exc
    /\ UNCHANGED <<net_config_exists, host, configured_ifaces>>

\* handle has returned or raised; the module runs again at the next boot
\* (frequency = PER_ALWAYS), by when cloud-init may have written its files anew
\* or an administrator may have removed them
Ifupdown_Return ==
    /\ UNCHANGED install_vars
    /\ if_pc \in {"done", "raised"}
    /\ if_pc' = "idle"
    /\ net_config_exists' \in BOOLEAN
    /\ udev_rules_exists' \in BOOLEAN
    /\ host' = NoHost
    /\ configured_ifaces' = <<>>
    /\ if_calls' = <<>>
    /\ if_log' = <<>>
    /\ if_exc' = ""

---------------------------------------------------------------------------
(* Specifications.                                                         *)

Init == InstallInit /\ IfupdownInit

Next ==
    \/ Handle_CheckActivated
    \/ Handle_CheckLiveBoot
    \/ Handle_FindDisk
    \/ Handle_Partition
    \/ Handle_Mount
    \/ Handle_Copy
    \/ Handle_Grub
    \/ Handle_Finish
    \/ Handle_Return

\* the installation module, run any number of times in one process
Spec == Init /\ [][Next]_vars

IfupdownNext ==
    \/ Ifupdown_Handle
    \/ NetworkCleanup_Ifquery
    \/ NetworkCleanup_Ifdown
    \/ NetworkCleanup_UnlinkNetConfig
    \/ NetworkCleanup_UdevRules
    \/ Ifupdown_Return

\* the ifupdown module, run at every boot
SpecIfupdown == Init /\ [][IfupdownNext]_vars

---------------------------------------------------------------------------
(* Vocabulary of the properties.                                           *)

\* operators of calls that were made in this run
Ops == {calls[i].op : i \in 1..Len(calls)}

\* the destructive disk operations
DestructiveOps == {"disk.disk_cleanup", "disk.parttable_create", "disk.filesystem_create"}

\* everything handle does to install: partitioning, mounting, copying, GRUB, reboot
InstallOps ==
    DestructiveOps \cup
    {"mkdir", "disk.partition_mount", "cp", "write_text", "copy", "setup_grub",
     "grub.create_structure", "grub.version_add", "grub.set_default", "grub.install",
     "grub.sort_inodes", "touch", "reboot_trigger"}

\* find_disk has been called in this run and what it saw is still in view
FindDiskCalled == lsblk # NoLsblk

\* ... and it returned (disks_size did not raise)
FindDiskReturned == FindDiskCalled /\ exc = ""

\* the top-level records of the query's answer
TopLevel ==
    IF lsblk.kind = "json" /\ "blockdevices" \in DOMAIN lsblk.blk_list
    THEN lsblk.blk_list["blockdevices"] ELSE <<>>

TopLevelDisks ==
    {i \in 1..Len(TopLevel) : "type" \in DOMAIN TopLevel[i] /\ TopLevel[i].type = "disk"}

\* items of the returned dictionary that meet the policy of the specification
Qualifying ==
    {i \in 1..Len(disks_available) : GreaterThan(disks_available[i][2], GiB2)}

\* the orderings of one dictionary
Orderings(d) == {[i \in 1..Len(d) |-> d[f[i]]] : f \in Permutations(1..Len(d))}

\* the disk names the host can report, as Python's < on str orders them
NamesInOrder == <<"/dev/nvme0n1", "/dev/sda", "/dev/sdb", "/dev/sdc">>
Rank(name) == CHOOSE r \in 1..Len(NamesInOrder) : NamesInOrder[r] = name

---------------------------------------------------------------------------
(* C1: whenever find_disk returns a non-empty (name, size), name is a key  *)
(* of the dictionary disks_size() returned, size is its value there and    *)
(* size is strictly greater than 2,147,483,648; a disk of exactly that     *)
(* size is never the one selected.                                         *)
C1_SelectedDiskQualifies ==
    /\ (FindDiskReturned /\ install_target # "") =>
          /\ install_target \in Keys(disks_available)
          /\ dict_get(disks_available, install_target) = target_size
    /\ install_target # "" =>
          /\ GreaterThan(target_size, GiB2)
          /\ target_size # GiB2

\* a disk of exactly 2,147,483,648 bytes was listed first and another was selected
C1_Witness ==
    /\ FindDiskReturned
    /\ install_target # ""
    /\ Len(disks_available) >= 2
    /\ disks_available[1][2] = GiB2
    /\ target_size = Bytes(2048, 1)

(* C2: for any two orderings of the same set of disks find_disk yields the *)
(* same (name, size).                                                      *)
C2_OrderIndependent ==
    FindDiskReturned =>
        \A d \in Orderings(disks_available) :
            find_disk(d) = <<install_target, target_size>>

(* C3: when at least one disk qualifies, find_disk returns the qualifying  *)
(* disk whose name is first in lexicographic order, whatever order the     *)
(* enumerator produced the entries in.                                     *)
C3_LexicographicallyFirst ==
    (FindDiskReturned /\ Qualifying # {}) =>
        \E i \in Qualifying :
            /\ <<install_target, target_size>> = disks_available[i]
            /\ \A j \in Qualifying :
                   Rank(disks_available[i][1]) <= Rank(disks_available[j][1])

(* C4: find_disk returns ("", 0) exactly when the dictionary is empty or   *)
(* holds no disk larger than 2,147,483,648 bytes, and does not raise when  *)
(* disks_size() returned.                                                  *)
C4_EmptyResultIffNoQualifier ==
    /\ FindDiskReturned =>
          (<<install_target, target_size>> = <<"", Bytes(0, 0)>> <=> Qualifying = {})
    /\ FindDiskReturned => (install_target = "" <=> Qualifying = {})
    /\ (FindDiskCalled /\ ~disks_size(lsblk).raised) => exc = ""

\* disks were found, the first too small and a later one exactly 2 GiB, and the
\* result is empty
C4_Witness ==
    /\ FindDiskReturned
    /\ Len(disks_available) >= 2
    /\ disks_available[2][2] = GiB2
    /\ Qualifying = {}
    /\ install_target = ""

(* C5: when find_disk yields the empty result, handle logs an error and    *)
(* returns without any call that partitions, formats, mounts, copies,      *)
(* installs GRUB or adds the reboot trigger.                               *)
C5_NoDiskAborts ==
    (FindDiskReturned /\ install_target = "") =>
        /\ pc = "done"
        /\ Len(log) > 0
        /\ log[Len(log)] = Error("No suitable disk found for installation")
        /\ Ops \cap InstallOps = {}

\* disks were reported, none large enough, and handle has returned
C5_Witness ==
    /\ FindDiskReturned
    /\ install_target = ""
    /\ disks_available # <<>>
    /\ pc = "done"

(* C6: the dictionary disks_size() returns holds exactly the top-level     *)
(* records of type "disk", each under its name with its reported size;     *)
(* records of any other type and the children of a disk are not in it.     *)
C6_OnlyTopLevelDisks ==
    FindDiskReturned =>
        /\ Keys(disks_available) = {TopLevel[i].name : i \in TopLevelDisks}
        /\ \A i \in TopLevelDisks :
               dict_get(disks_available, TopLevel[i].name) = TopLevel[i].size
        /\ Len(disks_available) = Cardinality(TopLevelDisks)
        /\ \A i \in 1..Len(TopLevel) :
               (i \notin TopLevelDisks /\ "name" \in DOMAIN TopLevel[i])
                   => TopLevel[i].name \notin Keys(disks_available)

\* the answer held a disk with a partition below it, a top-level partition and a
\* rom, and only the disk was returned
C6_Witness ==
    /\ FindDiskReturned
    /\ Len(TopLevel) = 3
    /\ \E i, j, k \in 1..3 :
           /\ TopLevel[i].type = "part"
           /\ TopLevel[j].type = "rom"
           /\ TopLevel[k].type = "disk" /\ "children" \in DOMAIN TopLevel[k]
    /\ Len(disks_available) = 1

\* the query could not be run, or its answer is no JSON or has no "blockdevices"
QueryFailed(out) ==
    \/ out.kind \in {"run_error", "not_json"}
    \/ out.kind = "json" /\ "blockdevices" \notin DOMAIN out.blk_list

RecordsOf(out) ==
    IF out.kind = "json" /\ "blockdevices" \in DOMAIN out.blk_list
    THEN {out.blk_list["blockdevices"][i] : i \in 1..Len(out.blk_list["blockdevices"])}
    ELSE {}

\* the query is unavailable or its data malformed, as the claim lists the cases
Malformed(out) ==
    \/ QueryFailed(out)
    \/ \E r \in RecordsOf(out) : ~({"type", "name", "size"} \subseteq DOMAIN r)

\* the same, where a missing name or size counts only in a record of type "disk"
MalformedForDisks(out) ==
    \/ QueryFailed(out)
    \/ \E r \in RecordsOf(out) :
          \/ "type" \notin DOMAIN r
          \/ r.type = "disk" /\ ~({"name", "size"} \subseteq DOMAIN r)

\* handle was left by an exception out of disks_size(), with nothing installed
EnumeratorFailed ==
    /\ exc # ""
    /\ pc = "raised"
    /\ disks_available = <<>>
    /\ install_target = ""
    /\ Ops \cap InstallOps = {}

(* C7 as claimed: if the query is unavailable or returns malformed data    *)
(* (unparseable output, no "blockdevices" list, a record lacking type,     *)
(* name or size), disks_size() fails with an error instead of returning a  *)
(* mapping and handle does not go on to install.                           *)
C7_MalformedQueryFails ==
    (FindDiskCalled /\ Malformed(lsblk)) => EnumeratorFailed

(* C7 as amended: disks_size() fails, and handle does not go on to         *)
(* install, if the query is unavailable, its output unparseable or without *)
(* a "blockdevices" list, a record lacks type, or a record of type "disk"  *)
(* lacks name or size; in no other case does disks_size() fail.            *)
C7_MalformedDiskDataFails ==
    FindDiskCalled => (MalformedForDisks(lsblk) <=> EnumeratorFailed)

\* a record of type "disk" without a size came after a disk large enough, and
\* handle was left by KeyError
C7_Witness ==
    /\ FindDiskCalled
    /\ exc = "KeyError"
    /\ pc = "raised"
    /\ Len(TopLevel) = 2
    /\ DOMAIN TopLevel[2] = {"name", "type"}
    /\ TopLevel[2].type = "disk"
    /\ DOMAIN TopLevel[1] = {"name", "type", "size"}
    /\ TopLevel[1].type = "disk"
    /\ GreaterThan(TopLevel[1].size, GiB2)

(* C9: a destructive disk operation is invoked only in a run in which      *)
(* vyos_install/activated was true and image.is_live_boot() returned true; *)
(* when either guard fails handle returns having neither queried the disks *)
(* nor touched disk, mounts or filesystem.                                 *)
C9_GuardsBeforeDiskOperations ==
    /\ Ops \cap DestructiveOps # {} => (activated /\ live_boot)
    /\ (~activated \/ ~live_boot) =>
          /\ Ops \cap (InstallOps \cup {"lsblk"}) = {}
          /\ lsblk = NoLsblk
          /\ pc \in {"idle", "check_live_boot", "done"}
    /\ (pc = "check_live_boot" \/ "image.is_live_boot" \in Ops) => activated

\* installation is activated, the system is not live-booted, handle has returned
C9_Witness ==
    /\ pc = "done"
    /\ activated
    /\ ~live_boot
    /\ Ops = {"image.is_live_boot"}

\* the vars handed to setup_grub in this run
SetupGrubVars == {calls[i].args[2] : i \in {j \in 1..Len(calls) : calls[j].op = "setup_grub"}}

(* C10: handle leaves DEFAULT_BOOT_VARS unchanged, so a run whose          *)
(* console_type is not "serial" hands console_type "tty", console_num "0"  *)
(* and console_speed "115200" to setup_grub whatever earlier runs used.    *)
C10_DefaultBootVarsUnchanged ==
    /\ DEFAULT_BOOT_VARS = InitialBootVars
    /\ boot_params.console_type # "serial" =>
          \A v \in SetupGrubVars :
              /\ v.console_type = "tty"
              /\ v.console_num = "0"
              /\ v.console_speed = "115200"

\* a step of network_cleanup failed in this run
CleanupStepFailed ==
    \E i \in 1..Len(if_calls) :
        \/ if_calls[i].op = "ifquery" /\ host.ifquery.raised
        \/ if_calls[i].op = "ifdown" /\ if_calls[i].args[1] \in host.ifdown_raises
        \/ /\ if_calls[i] = Call("unlink", <<"/etc/network/interfaces.d/50-cloud-init">>)
           /\ host.unlink_net_config_raises
        \/ /\ if_calls[i] = Call("unlink", <<"/etc/udev/rules.d/70-persistent-net.rules">>)
           /\ host.unlink_udev_rules_raises

(* C8: whichever step of network_cleanup fails (ifquery, ifdown, deleting  *)
(* 50-cloud-init, deleting 70-persistent-net.rules), the failure is logged *)
(* and does not leave handle as an exception.                              *)
C8_CleanupFailuresOnlyLogged ==
    /\ if_exc = ""
    /\ if_pc # "raised"
    /\ CleanupStepFailed =>
          \E i \in 1..Len(if_log) : if_log[i] = Error("Failed to cleanup network configuration")

===========================================================================
